---- MODULE Spec2Model ----
(***************************************************************************)
(* Model of convert.py: the expense-log converter.                         *)
(*                                                                         *)
(* A text (str) is a sequence of one-character strings.  A datetime is the *)
(* tuple <<year, month, day, hour, minute>> of its fields (seconds are     *)
(* always 0 in this program); a datetime held by a Transaction or a        *)
(* Category is always in UTC.  A Decimal is a record                       *)
(* [kind, neg, digits, exp]: kind "fin" has the value                      *)
(* (-1)^neg * digits * 10^exp with digits a sequence of 0..9.              *)
(***************************************************************************)
EXTENDS Integers, Sequences, FiniteSets, TLC

(***************************************************************************)
(* Bounds of the model.                                                    *)
(***************************************************************************)
MaxRows == 3
MaxTx == 2
MaxAmountLen == 5
MaxLongDigits == 29
MaxRuns == 2

\* Python's None: the empty tuple, which is no datetime and no document
None == <<>>

(***************************************************************************)
(* str helpers                                                             *)
(***************************************************************************)
DigitChars == {"0", "1", "2", "3", "4", "5", "6", "7", "8", "9"}

DigitVal(c) ==
    CASE c = "0" -> 0 [] c = "1" -> 1 [] c = "2" -> 2 [] c = "3" -> 3
      [] c = "4" -> 4 [] c = "5" -> 5 [] c = "6" -> 6 [] c = "7" -> 7
      [] c = "8" -> 8 [] c = "9" -> 9

DigitChar(d) ==
    CASE d = 0 -> "0" [] d = 1 -> "1" [] d = 2 -> "2" [] d = 3 -> "3"
      [] d = 4 -> "4" [] d = 5 -> "5" [] d = 6 -> "6" [] d = 7 -> "7"
      [] d = 8 -> "8" [] d = 9 -> "9"

\* index of the first occurrence of character c in s, 0 when there is none
Find(s, c) ==
    IF \E k \in 1..Len(s) : s[k] = c
    THEN CHOOSE k \in 1..Len(s) : s[k] = c /\ \A j \in 1..(k - 1) : s[j] # c
    ELSE 0

\* str.split(sep) for a one-character separator
RECURSIVE Split(_, _)
Split(s, sep) ==
    LET k == Find(s, sep)
    IN  IF k = 0 THEN <<s>>
        ELSE <<SubSeq(s, 1, k - 1)>> \o Split(SubSeq(s, k + 1, Len(s)), sep)

\* str.replace(old, new): leftmost non-overlapping occurrences, old non-empty
RECURSIVE Replace(_, _, _)
Replace(s, old, new) ==
    IF Len(s) < Len(old) THEN s
    ELSE IF SubSeq(s, 1, Len(old)) = old
         THEN new \o Replace(SubSeq(s, Len(old) + 1, Len(s)), old, new)
         ELSE <<s[1]>> \o Replace(Tail(s), old, new)

\* str.strip(), for the space character
RECURSIVE StripLeft(_)
StripLeft(s) == IF s # <<>> /\ s[1] = " " THEN StripLeft(Tail(s)) ELSE s

RECURSIVE StripRight(_)
StripRight(s) ==
    IF s # <<>> /\ s[Len(s)] = " " THEN StripRight(SubSeq(s, 1, Len(s) - 1)) ELSE s

Strip(s) == StripRight(StripLeft(s))

IsDigit(c) == c \in DigitChars

AllDigits(s) == \A k \in 1..Len(s) : IsDigit(s[k])

\* value of a sequence of digit characters
RECURSIVE DigitsValue(_)
DigitsValue(s) ==
    IF s = <<>> THEN 0
    ELSE 10 * DigitsValue(SubSeq(s, 1, Len(s) - 1)) + DigitVal(s[Len(s)])

\* int(s): surrounding spaces, an optional sign, digits with single
\* underscores between digits; anything else raises ValueError (ok = FALSE)
IntParse(s) ==
    LET t == Strip(s)
        signed == t # <<>> /\ t[1] \in {"+", "-"}
        body == IF signed THEN Tail(t) ELSE t
        wellFormed ==
            /\ body # <<>>
            /\ IsDigit(body[1]) /\ IsDigit(body[Len(body)])
            /\ \A k \in 1..Len(body) : IsDigit(body[k]) \/ body[k] = "_"
            /\ \A k \in 1..(Len(body) - 1) : ~(body[k] = "_" /\ body[k + 1] = "_")
        mag == DigitsValue(SelectSeq(body, IsDigit))
    IN  IF wellFormed
        THEN [ok |-> TRUE, val |-> IF signed /\ t[1] = "-" THEN 0 - mag ELSE mag]
        ELSE [ok |-> FALSE, val |-> 0]

\* zero-padded decimal rendering of n >= 0 on at least w characters
RECURSIVE Pad(_, _)
Pad(n, w) ==
    IF w <= 1 /\ n < 10 THEN <<DigitChar(n)>>
    ELSE Pad(n \div 10, w - 1) \o <<DigitChar(n % 10)>>

(***************************************************************************)
(* datetime: construction in America/Edmonton and conversion to UTC        *)
(***************************************************************************)
IsLeap(y) == (y % 4 = 0) /\ ((y % 100 # 0) \/ (y % 400 = 0))

DaysInMonth(y, m) ==
    IF m = 2 THEN (IF IsLeap(y) THEN 29 ELSE 28)
    ELSE IF m \in {4, 6, 9, 11} THEN 30 ELSE 31

RECURSIVE DaysBeforeMonth(_, _)
DaysBeforeMonth(y, m) ==
    IF m <= 1 THEN 0 ELSE DaysBeforeMonth(y, m - 1) + DaysInMonth(y, m - 1)

\* date.toordinal(): 1 for 0001-01-01
Ordinal(y, m, d) ==
    LET p == y - 1
    IN  365 * p + (p \div 4) - (p \div 100) + (p \div 400) + DaysBeforeMonth(y, m) + d

\* date.weekday(): Monday is 0, Sunday is 6
Weekday(y, m, d) == (Ordinal(y, m, d) + 6) % 7

\* the n-th Sunday (n >= 1) of month m of year y
NthSunday(y, m, n) ==
    CHOOSE d \in (7 * (n - 1) + 1)..(7 * n) : Weekday(y, m, d) = 6

\* the last Sunday of a 31-day month
LastSunday31(y, m) == CHOOSE d \in 25..31 : Weekday(y, m, d) = 6

\* Daylight time of America/Edmonton for a wall-clock time (fold = 0), for the
\* years the zone follows the "Canada" rules (1987 on): from 2007 the second
\* Sunday of March to the first Sunday of November, before that the first
\* Sunday of April to the last Sunday of October; the change is at 02:00 wall
\* time.  A wall time in the skipped hour takes the standard offset, one in
\* the repeated hour the daylight offset.
InDaylightTime(y, m, d, h) ==
    LET startMonth == IF y >= 2007 THEN 3 ELSE 4
        startDay == IF y >= 2007 THEN NthSunday(y, 3, 2) ELSE NthSunday(y, 4, 1)
        endMonth == IF y >= 2007 THEN 11 ELSE 10
        endDay == IF y >= 2007 THEN NthSunday(y, 11, 1) ELSE LastSunday31(y, 10)
        afterStart == \/ m > startMonth
                      \/ m = startMonth /\ d > startDay
                      \/ m = startMonth /\ d = startDay /\ h >= 3
        beforeEnd == \/ m < endMonth
                     \/ m = endMonth /\ d < endDay
                     \/ m = endMonth /\ d = endDay /\ h < 2
    IN  afterStart /\ beforeEnd

\* hours to add to an America/Edmonton wall time to reach UTC
HoursToUtc(y, m, d, h) == IF InDaylightTime(y, m, d, h) THEN 6 ELSE 7

\* the datetime dt moved forward by n hours, 0 <= n < 24
AddHours(dt, n) ==
    LET y == dt[1]  mo == dt[2]  d == dt[3]  h == dt[4] + n
    IN  IF h < 24 THEN <<y, mo, d, h, dt[5]>>
        ELSE IF d < DaysInMonth(y, mo) THEN <<y, mo, d + 1, h - 24, dt[5]>>
        ELSE IF mo < 12 THEN <<y, mo + 1, 1, h - 24, dt[5]>>
        ELSE <<y + 1, 1, 1, h - 24, dt[5]>>

\* datetime(y, m, d, h, mi, 0, tzinfo=ZoneInfo("America/Edmonton")): the
\* constructor's range checks (ValueError otherwise)
ValidDatetimeFields(y, m, d, h, mi) ==
    /\ y \in 1..9999
    /\ m \in 1..12
    /\ d >= 1 /\ d <= DaysInMonth(y, m)
    /\ h \in 0..23
    /\ mi \in 0..59

\* .astimezone(ZoneInfo("UTC")) of that datetime
ToUtc(y, m, d, h, mi) == AddHours(<<y, m, d, h, mi>>, HoursToUtc(y, m, d, h))

\* a < b for two UTC datetimes
DtLess(a, b) ==
    \E k \in 1..5 : a[k] < b[k] /\ \A j \in 1..(k - 1) : a[j] = b[j]

\* datetime.isoformat() of a UTC datetime
IsoFormat(dt) ==
    Pad(dt[1], 4) \o <<"-">> \o Pad(dt[2], 2) \o <<"-">> \o Pad(dt[3], 2)
      \o <<"T">> \o Pad(dt[4], 2) \o <<":">> \o Pad(dt[5], 2)
      \o <<":", "0", "0", "+", "0", "0", ":", "0", "0">>

\* lines 153-161 on the five numbers int() gave, each [ok, val]; a UTC
\* datetime past year 9999 raises OverflowError
DatetimeFromInts(day, month, year, hour, minute) ==
    IF ~(day.ok /\ month.ok /\ year.ok /\ hour.ok /\ minute.ok)
    THEN [ok |-> FALSE, val |-> <<>>]
    ELSE IF ~ValidDatetimeFields(2000 + year.val, month.val, day.val, hour.val, minute.val)
    THEN [ok |-> FALSE, val |-> <<>>]
    ELSE IF ToUtc(2000 + year.val, month.val, day.val, hour.val, minute.val)[1] > 9999
    THEN [ok |-> FALSE, val |-> <<>>]
    ELSE [ok |-> TRUE,
          val |-> ToUtc(2000 + year.val, month.val, day.val, hour.val, minute.val)]

\* lines 148-161 on the parts of the date around "/" and of the time around
\* ":": unpacking anything but three, and two, parts raises ValueError
DatetimeFromParts(dmy, hm) ==
    IF Len(dmy) # 3 \/ Len(hm) # 2 THEN [ok |-> FALSE, val |-> <<>>]
    ELSE DatetimeFromInts(IntParse(dmy[1]), IntParse(dmy[2]), IntParse(dmy[3]),
                          IntParse(hm[1]), IntParse(hm[2]))

\* the date and time fields of a row (lines 148-161): the UTC datetime, or
\* ok = FALSE where the code raises
ParseDatetime(dateField, timeField) ==
    DatetimeFromParts(Split(dateField, "/"), Split(timeField, ":"))

(***************************************************************************)
(* Decimal: construction from a str, and multiplication by 1 or -1 in the  *)
(* default context                                                         *)
(***************************************************************************)
\* precision of the default decimal context, to which every arithmetic
\* result is rounded (ROUND_HALF_EVEN)
DecimalPrec == 28

Lower(c) ==
    CASE c = "E" -> "e" [] c = "I" -> "i" [] c = "N" -> "n" [] c = "F" -> "f"
      [] c = "T" -> "t" [] c = "Y" -> "y" [] c = "A" -> "a" [] c = "S" -> "s"
      [] OTHER -> c

LowerAll(s) == [k \in 1..Len(s) |-> Lower(s[k])]

NotUnderscore(c) == c # "_"

DigitSeq(s) == [k \in 1..Len(s) |-> DigitVal(s[k])]

RECURSIVE StripLeadingZeros(_)
StripLeadingZeros(ds) ==
    IF Len(ds) > 1 /\ ds[1] = 0 THEN StripLeadingZeros(Tail(ds)) ELSE ds

DecimalError == [ok |-> FALSE, val |-> [kind |-> "none"]]

\* Decimal(s): the str is stripped and its underscores dropped; then an
\* optional sign and either digits with at most one point (at least one
\* digit) and an optional exponent, or Inf / Infinity, or NaN / sNaN with
\* optional digits, in any letter case.  Anything else raises
\* InvalidOperation (ok = FALSE).
DecimalParse(s) ==
    LET t == LowerAll(SelectSeq(Strip(s), NotUnderscore))
        signed == t # <<>> /\ t[1] \in {"+", "-"}
        neg == signed /\ t[1] = "-"
        body == IF signed THEN Tail(t) ELSE t
        ePos == Find(body, "e")
        mant == IF ePos = 0 THEN body ELSE SubSeq(body, 1, ePos - 1)
        expo == IF ePos = 0 THEN <<>> ELSE SubSeq(body, ePos + 1, Len(body))
        expSigned == expo # <<>> /\ expo[1] \in {"+", "-"}
        expDigits == IF expSigned THEN Tail(expo) ELSE expo
        expOk == ePos = 0 \/ (expDigits # <<>> /\ AllDigits(expDigits))
        expVal == IF ePos = 0 THEN 0
                  ELSE IF expSigned /\ expo[1] = "-" THEN 0 - DigitsValue(expDigits)
                  ELSE DigitsValue(expDigits)
        dot == Find(mant, ".")
        intPart == IF dot = 0 THEN mant ELSE SubSeq(mant, 1, dot - 1)
        fracPart == IF dot = 0 THEN <<>> ELSE SubSeq(mant, dot + 1, Len(mant))
        mantOk == /\ AllDigits(intPart) /\ AllDigits(fracPart)
                  /\ Len(intPart) + Len(fracPart) >= 1
        nanBody == IF Len(body) >= 1 /\ body[1] = "s" THEN Tail(body) ELSE body
    IN  IF body \in {<<"i", "n", "f">>, <<"i", "n", "f", "i", "n", "i", "t", "y">>}
        THEN [ok |-> TRUE, val |-> [kind |-> "inf", neg |-> neg, digits |-> <<0>>, exp |-> 0]]
        ELSE IF /\ Len(nanBody) >= 3
                /\ SubSeq(nanBody, 1, 3) = <<"n", "a", "n">>
                /\ AllDigits(SubSeq(nanBody, 4, Len(nanBody)))
        THEN [ok |-> TRUE,
              val |-> [kind |-> IF nanBody = body THEN "nan" ELSE "snan", neg |-> neg,
                       digits |-> <<0>>, exp |-> 0]]
        ELSE IF mantOk /\ expOk
        THEN [ok |-> TRUE,
              val |-> [kind |-> "fin", neg |-> neg,
                       digits |-> StripLeadingZeros(DigitSeq(intPart \o fracPart)),
                       exp |-> expVal - Len(fracPart)]]
        ELSE DecimalError

\* ds + 1 on a digit sequence
RECURSIVE Increment(_)
Increment(ds) ==
    IF ds = <<>> THEN <<1>>
    ELSE IF ds[Len(ds)] < 9
         THEN SubSeq(ds, 1, Len(ds) - 1) \o <<ds[Len(ds)] + 1>>
         ELSE Increment(SubSeq(ds, 1, Len(ds) - 1)) \o <<0>>

\* a finite Decimal rounded to DecimalPrec significant digits, half to even
RoundToPrec(x) ==
    IF Len(x.digits) <= DecimalPrec THEN x
    ELSE LET kept == SubSeq(x.digits, 1, DecimalPrec)
             rest == SubSeq(x.digits, DecimalPrec + 1, Len(x.digits))
             restZero == \A k \in 2..Len(rest) : rest[k] = 0
             up == \/ rest[1] > 5
                   \/ rest[1] = 5 /\ ~restZero
                   \/ rest[1] = 5 /\ restZero /\ kept[DecimalPrec] % 2 = 1
             raised == IF up THEN Increment(kept) ELSE kept
         IN  IF Len(raised) > DecimalPrec
             THEN [x EXCEPT !.digits = SubSeq(raised, 1, DecimalPrec),
                            !.exp = x.exp + Len(rest) + 1]
             ELSE [x EXCEPT !.digits = raised, !.exp = x.exp + Len(rest)]

\* Decimal x * multiplier, multiplier 1 or -1 (line 168).  A signalling NaN
\* raises InvalidOperation; the exponent stays far inside the context's
\* limits for every amount of the model.
DecimalTimesUnit(x, multiplier) ==
    LET sign == IF multiplier < 0 THEN ~x.neg ELSE x.neg
    IN  IF x.kind = "snan" THEN DecimalError
        ELSE IF x.kind = "fin"
        THEN [ok |-> TRUE, val |-> RoundToPrec([x EXCEPT !.neg = sign])]
        ELSE [ok |-> TRUE, val |-> [x EXCEPT !.neg = sign]]

\* lines 165-168 once the field is split and the thousands markers removed:
\* parsed is the outcome of Decimal(amount_string)
SignedAmount(is_negative, parsed) ==
    IF ~parsed.ok THEN DecimalError
    ELSE DecimalTimesUnit(parsed.val, IF is_negative THEN 0 - 1 ELSE 1)

\* lines 164-168 on the parts of the field around "$": unpacking anything
\* but two parts raises ValueError
AmountFromParts(parts) ==
    IF Len(parts) # 2 THEN DecimalError
    ELSE SignedAmount(parts[1] = <<"-">>, DecimalParse(Replace(parts[2], <<",">>, <<>>)))

\* the amount field of a row (lines 162-168): the Decimal, or ok = FALSE
\* where the code raises
ParseAmount(field) == AmountFromParts(Split(field, "$"))

(***************************************************************************)
(* The program's state.                                                    *)
(*   file          the rows csv.reader yields for the input file, each a   *)
(*                 sequence of fields                                      *)
(*   i             the index enumerate() gives the next row                *)
(*   pc            where main is: "parse" (in the loop of                  *)
(*                 parse_expense_log), "serialize" (it returned),          *)
(*                 "done" (transactions.json written); "api" when the      *)
(*                 Transactions object is driven by calls instead          *)
(*   transactions  Transactions.__transactions; a Transaction is           *)
(*                 [created_at, amount, category, notes], category being   *)
(*                 the index of a Category object in heap                  *)
(*   heap          every Category object created: [name, created_at,       *)
(*                 sets], sets counting the calls of its created_at setter *)
(*   diagnostics   the row indices of the "Skipping bad row" messages      *)
(*   result        what the last to_json returned (None before, and after  *)
(*                 any other call)                                         *)
(*   assertFailed  the assertion of line 114 failed                        *)
(*   aggRuns       runs of set_default_category_created_ats since the      *)
(*                 ledger last changed                                     *)
(*   serialized    to_json calls so far                                    *)
(*   aggTotal      runs of set_default_category_created_ats so far         *)
(***************************************************************************)
VARIABLES file, i, pc, transactions, heap, diagnostics, result, assertFailed,
          aggRuns, serialized, aggTotal

vars == <<file, i, pc, transactions, heap, diagnostics, result, assertFailed,
          aggRuns, serialized, aggTotal>>

(***************************************************************************)
(* Category and Transaction                                                *)
(***************************************************************************)
\* Category(name): created_at defaults to None (lines 10-12)
NewCategory(name) == [name |-> name, created_at |-> None, sets |-> 0]

\* the created_at setter of Category (lines 22-25)
CategorySetCreatedAt(category, created_at) ==
    [category EXCEPT !.created_at = created_at, !.sets = category.sets + 1]

\* Transaction(created_at, amount, category, notes) (lines 29-38)
NewTransaction(created_at, amount, category, notes) ==
    [created_at |-> created_at, amount |-> amount, category |-> category,
     notes |-> notes]

\* the categories property (lines 81-87): a set of Category objects, which
\* hash by identity
Categories(txs) == {txs[k].category : k \in 1..Len(txs)}

(***************************************************************************)
(* Transactions.set_default_category_created_ats (lines 93-103)            *)
(***************************************************************************)
\* EarliestStep with the comparison of line 97 turned round: keeps the latest
EarliestStep_Latest(earliest, name, created_at) ==
    IF name \in DOMAIN earliest
    THEN IF DtLess(earliest[name], created_at)
         THEN [earliest EXCEPT ![name] = created_at]
         ELSE earliest
    ELSE [n \in (DOMAIN earliest) \cup {name} |->
            IF n = name THEN created_at ELSE earliest[n]]

\* one turn of the first loop (lines 96-100): earliest is the dictionary
\* category_earliest_transactions, a function on the names seen so far
EarliestStep(earliest, name, created_at) ==
    IF name \in DOMAIN earliest
    THEN IF DtLess(created_at, earliest[name])
         THEN [earliest EXCEPT ![name] = created_at]
         ELSE earliest
    ELSE [n \in (DOMAIN earliest) \cup {name} |->
            IF n = name THEN created_at ELSE earliest[n]]

\* the first loop (lines 95-100) from transaction k on
RECURSIVE EarliestLoop(_, _, _, _)
EarliestLoop(txs, hp, k, earliest) ==
    IF k > Len(txs) THEN earliest
    ELSE EarliestLoop(txs, hp, k + 1,
                      EarliestStep(earliest, hp[txs[k].category].name, txs[k].created_at))

\* the second loop (lines 102-103) from transaction k on
RECURSIVE AssignLoop(_, _, _, _)
AssignLoop(txs, hp, k, earliest) ==
    IF k > Len(txs) THEN hp
    ELSE LET c == txs[k].category
         IN  AssignLoop(txs,
                        [hp EXCEPT ![c] = CategorySetCreatedAt(hp[c], earliest[hp[c].name])],
                        k + 1, earliest)

\* set_default_category_created_ats rewritten as one loop over a dictionary
\* that outlives the call: the dictionary starts from the created_at values an
\* earlier run left, and each category is assigned while the minimum is
\* still being collected
CachedEarliest(txs, hp) ==
    LET names == {hp[c].name : c \in {d \in Categories(txs) : hp[d].created_at # None}}
    IN  [n \in names |->
            CHOOSE t \in {hp[c].created_at :
                            c \in {d \in Categories(txs) :
                                     hp[d].created_at # None /\ hp[d].name = n}} :
               \A c \in Categories(txs) :
                  (hp[c].created_at # None /\ hp[c].name = n) => ~DtLess(hp[c].created_at, t)]

RECURSIVE MergedLoop(_, _, _, _)
MergedLoop(txs, hp, k, earliest) ==
    IF k > Len(txs) THEN hp
    ELSE LET c == txs[k].category
             e == IF hp[c].name \in DOMAIN earliest
                  THEN IF DtLess(txs[k].created_at, earliest[hp[c].name])
                       THEN [earliest EXCEPT ![hp[c].name] = txs[k].created_at]
                       ELSE earliest
                  ELSE [n \in (DOMAIN earliest) \cup {hp[c].name} |->
                          IF n = hp[c].name THEN txs[k].created_at ELSE earliest[n]]
         IN  MergedLoop(txs, [hp EXCEPT ![c] = CategorySetCreatedAt(hp[c], e[hp[c].name])],
                        k + 1, e)

SetDefaultCategoryCreatedAts_Cached(txs, hp) ==
    MergedLoop(txs, hp, 1, CachedEarliest(txs, hp))

\* the heap after set_default_category_created_ats
SetDefaultCategoryCreatedAts(txs, hp) ==
    AssignLoop(txs, hp, 1, EarliestLoop(txs, hp, 1, <<>>))

(***************************************************************************)
(* Transactions.__repr__ / to_json (lines 105-133)                         *)
(***************************************************************************)
\* float(amount) as json.dumps writes it: the double nearest to the Decimal.
\* Its text holds no ":" and so is never touched by the final replace.
Float(amount) == [nearest_double_to |-> amount]

\* the orders in which a set of Category objects can be iterated
IterationOrders(S) ==
    {f \in [1..Cardinality(S) -> S] : \A a, b \in 1..Cardinality(S) : f[a] = f[b] => a = b}

\* json.dumps(...).replace("+00:00", "Z") on one string of the document: the
\* replaced text has no quote, backslash or control character, so every
\* occurrence in the document lies inside one string value
ReplaceUtcSuffix(s) == Replace(s, <<"+", "0", "0", ":", "0", "0">>, <<"Z">>)

\* top_level["categories"] before the dump (lines 113-119), hp being the
\* heap after aggregation and order the iteration order of the set
CategoryDicts(hp, order) ==
    [k \in 1..Len(order) |->
        [name |-> hp[order[k]].name, created_at |-> IsoFormat(hp[order[k]].created_at)]]

\* the first category dict with the given name (line 123)
FirstMatching(dicts, name) ==
    dicts[CHOOSE k \in 1..Len(dicts) :
            dicts[k].name = name /\ \A j \in 1..(k - 1) : dicts[j].name # name]

\* the document to_json returns, as the parsed JSON text
ToJsonDocument(txs, hp, order) ==
    LET dicts == CategoryDicts(hp, order)
        dumped(d) == [name |-> ReplaceUtcSuffix(d.name),
                      created_at |-> ReplaceUtcSuffix(d.created_at)]
    IN  [categories |-> [k \in 1..Len(dicts) |-> dumped(dicts[k])],
         transactions |->
            [k \in 1..Len(txs) |->
                [category |-> dumped(FirstMatching(dicts, hp[txs[k].category].name)),
                 description |-> ReplaceUtcSuffix(txs[k].notes),
                 amount |-> Float(txs[k].amount),
                 created_at |-> ReplaceUtcSuffix(IsoFormat(txs[k].created_at))]]]

\* the assertion of line 114 over self.categories
AssertionHolds(txs, hp) == \A c \in Categories(txs) : hp[c].created_at # None

\* __repr__ without its call of set_default_category_created_ats
ReprAggregate_Skipped(txs, hp) == hp

\* __repr__ aggregating twice
ReprAggregate_Twice(txs, hp) ==
    SetDefaultCategoryCreatedAts(txs, SetDefaultCategoryCreatedAts(txs, hp))

\* the heap __repr__ works on: after its call of
\* set_default_category_created_ats (line 106)
ReprAggregate(txs, hp) == SetDefaultCategoryCreatedAts(txs, hp)

\* to_json as a step: aggregation, the assertion, the document
ToJsonStep ==
    LET hp == ReprAggregate(transactions, heap)
    IN  /\ heap' = hp
        /\ \E order \in IterationOrders(Categories(transactions)) :
              IF AssertionHolds(transactions, hp)
              THEN /\ result' = ToJsonDocument(transactions, hp, order)
                   /\ assertFailed' = assertFailed
              ELSE /\ result' = None
                   /\ assertFailed' = TRUE

(***************************************************************************)
(* parse_expense_log (lines 136-178)                                       *)
(***************************************************************************)
\* the header test off by one
IsHeaderIndex_Second(n) == n = 1

\* the row that is skipped without being looked at (lines 142-143)
IsHeaderIndex(n) == n = 0

\* the Transaction fields of a row whose date/time and amount were decoded
\* as dt and amount (lines 169-172), or ok = FALSE where one of them raised
RowResult(dt, amount, category, notes) ==
    IF dt.ok /\ amount.ok
    THEN [ok |-> TRUE, created_at |-> dt.val, amount |-> amount.val,
          category |-> category, notes |-> notes]
    ELSE [ok |-> FALSE]

\* the body of the try block for one row (lines 145-172): the fields of the
\* Transaction it builds, or ok = FALSE where it raises (a row of fewer than
\* five fields raises IndexError)
ParseRow(row) ==
    IF Len(row) < 5 THEN [ok |-> FALSE]
    ELSE RowResult(ParseDatetime(row[1], row[2]), ParseAmount(row[3]), row[4], row[5])

\* break instead of continue: the rows after a bad row are never read
AfterBadRow_Break(n) == Len(file)

\* the index the loop goes on with after a row that raised (line 176)
AfterBadRow(n) == n + 1

\* lines 142-143: the first row is passed over
SkipHeader ==
    /\ pc = "parse" /\ i < Len(file) /\ IsHeaderIndex(i)
    /\ i' = i + 1
    /\ UNCHANGED <<file, pc, transactions, heap, diagnostics, result, assertFailed,
                   aggRuns, serialized, aggTotal>>

\* lines 170-173 for the parsed row r: a Category of its own, the
\* Transaction, add_transaction (lines 89-91)
AddParsedRow(r) ==
    /\ r.ok
    /\ heap' = Append(heap, NewCategory(r.category))
    /\ transactions' = Append(transactions,
          NewTransaction(r.created_at, r.amount, Len(heap) + 1, r.notes))

\* lines 144-173: a row that parses is appended to the ledger
ParseGoodRow ==
    /\ pc = "parse" /\ i < Len(file) /\ ~IsHeaderIndex(i)
    /\ AddParsedRow(ParseRow(file[i + 1]))
    /\ i' = i + 1
    /\ aggRuns' = 0
    /\ UNCHANGED <<file, pc, diagnostics, result, assertFailed, serialized, aggTotal>>

\* lines 174-176: a row that raised is reported and passed over
SkipBadRow ==
    /\ pc = "parse" /\ i < Len(file) /\ ~IsHeaderIndex(i)
    /\ ~ParseRow(file[i + 1]).ok
    /\ diagnostics' = Append(diagnostics, i)
    /\ i' = AfterBadRow(i)
    /\ UNCHANGED <<file, pc, transactions, heap, result, assertFailed, aggRuns,
                   serialized, aggTotal>>

\* line 178: the reader is exhausted and parse_expense_log returns
EndOfFile ==
    /\ pc = "parse" /\ i >= Len(file)
    /\ pc' = "serialize"
    /\ UNCHANGED <<file, i, transactions, heap, diagnostics, result, assertFailed,
                   aggRuns, serialized, aggTotal>>

\* lines 189-191: transactions.to_json() is written to transactions.json
WriteJson ==
    /\ pc = "serialize"
    /\ ToJsonStep
    /\ pc' = "done"
    /\ aggRuns' = aggRuns + 1
    /\ serialized' = serialized + 1
    /\ aggTotal' = aggTotal + 1
    /\ UNCHANGED <<file, i, transactions, diagnostics>>

(***************************************************************************)
(* The Transactions object driven by calls (pc = "api")                    *)
(***************************************************************************)
SampleTimes == {<<2024, 1, 1, 16, 5>>, <<2024, 3, 15, 20, 30>>}
TxtFood == <<"F", "o", "o", "d">>
TxtUtcSuffix == <<"+", "0", "0", ":", "0", "0">>
TxtLunch == <<"l", "u", "n", "c", "h">>
TxtAtUtc == <<"a", "t", " ", "9", "+", "0", "0", ":", "0", "0">>
SampleNames == {TxtFood, TxtUtcSuffix}
SampleNotes == {TxtLunch}
SampleAmount == [kind |-> "fin", neg |-> TRUE, digits |-> <<1, 5, 0>>, exp |-> 0 - 2]

\* add_transaction (lines 89-91) of a Transaction whose Category is new
AddWithNewCategory ==
    /\ pc = "api" /\ Len(transactions) < MaxTx
    /\ \E t \in SampleTimes, name \in SampleNames, notes \in SampleNotes :
          /\ heap' = Append(heap, NewCategory(name))
          /\ transactions' = Append(transactions,
                NewTransaction(t, SampleAmount, Len(heap) + 1, notes))
    /\ aggRuns' = 0
    /\ result' = None
    /\ UNCHANGED <<file, i, pc, diagnostics, assertFailed, serialized, aggTotal>>

\* add_transaction of a Transaction that shares the Category object of an
\* earlier one
AddWithSharedCategory ==
    /\ pc = "api" /\ Len(transactions) < MaxTx
    /\ \E t \in SampleTimes, c \in 1..Len(heap), notes \in SampleNotes :
          transactions' = Append(transactions, NewTransaction(t, SampleAmount, c, notes))
    /\ aggRuns' = 0
    /\ result' = None
    /\ UNCHANGED <<file, i, pc, heap, diagnostics, assertFailed, serialized, aggTotal>>

\* a call of set_default_category_created_ats
SetDefaults ==
    /\ pc = "api" /\ aggTotal < MaxRuns
    /\ heap' = SetDefaultCategoryCreatedAts(transactions, heap)
    /\ aggRuns' = aggRuns + 1
    /\ aggTotal' = aggTotal + 1
    /\ result' = None
    /\ UNCHANGED <<file, i, pc, transactions, diagnostics, assertFailed, serialized>>

\* a call of to_json
ToJson ==
    /\ pc = "api" /\ aggTotal < MaxRuns
    /\ ToJsonStep
    /\ aggRuns' = aggRuns + 1
    /\ serialized' = serialized + 1
    /\ aggTotal' = aggTotal + 1
    /\ UNCHANGED <<file, i, pc, transactions, diagnostics>>

(***************************************************************************)
(* Inputs                                                                  *)
(***************************************************************************)
TxtRent == <<"R", "e", "n", "t">>
HeaderRow == <<<<"D", "a", "t", "e">>, <<"T", "i", "m", "e">>, <<"A", "m", "o", "u", "n", "t">>, <<"C", "a", "t", "e", "g", "o", "r", "y">>, <<"N", "o", "t", "e", "s">>>>
RowFoodLate == <<<<"1", "5", "/", "0", "3", "/", "2", "4">>, <<"1", "4", ":", "3", "0">>, <<"-", "$", "1", ",", "2", "3", "4", ".", "5", "6">>, TxtFood, TxtLunch>>
RowFoodEarly == <<<<"0", "1", "/", "0", "1", "/", "2", "4">>, <<"0", "9", ":", "0", "5">>, <<"$", "5", ".", "0", "0">>, TxtFood, <<>>>>
RowRent == <<<<"0", "1", "/", "0", "7", "/", "2", "3">>, <<"2", "3", ":", "3", "0">>, <<"$", "9", "0", "0">>, TxtRent, TxtAtUtc>>
RowBadDate == <<<<"3", "1", "/", "0", "2", "/", "2", "4">>, <<"1", "4", ":", "3", "0">>, <<"$", "5", ".", "0", "0">>, TxtFood, TxtLunch>>
RowBadTime == <<<<"1", "5", "/", "0", "3", "/", "2", "4">>, <<"2", "5", ":", "0", "0">>, <<"$", "5", ".", "0", "0">>, TxtFood, TxtLunch>>
RowBadAmount == <<<<"1", "5", "/", "0", "3", "/", "2", "4">>, <<"1", "4", ":", "3", "0">>, <<"$", "a", "b", "c">>, TxtFood, TxtLunch>>
RowTooShort == <<<<"1", "5", "/", "0", "3", "/", "2", "4">>, <<"1", "4", ":", "3", "0">>, <<"$", "5", ".", "0", "0">>>>
RowEmpty == <<>>

SampleRows == {HeaderRow, RowFoodLate, RowFoodEarly, RowRent, RowBadDate, RowBadTime,
               RowBadAmount, RowTooShort, RowEmpty}

\* all sequences over S of length at most n
SeqsUpTo(S, n) == UNION {[1..k -> S] : k \in 0..n}

AmountAlphabet == {"-", "$", ",", ".", "1", "e"}

\* amount fields with more digits than the decimal context keeps
LongAmounts ==
    {<<"$">> \o [k \in 1..(n - 1) |-> "1"] \o <<d>> :
        n \in (MaxLongDigits - 1)..MaxLongDigits, d \in {"0", "2", "5"}}

SampleAmounts == {<<"-", "$", "1", ",", "2", "3", "4", ".", "5", "6">>, <<"$", "5", ".", "0", "0">>, <<"$", "a", "b", "c">>, <<"$", "N", "a", "N">>, <<"$", "I", "n", "f", "i", "n", "i", "t", "y">>, <<"5", ".", "0", "0">>,
                  <<"$", "1", ".", "2", ".", "3">>, <<"x", "$", "5">>, <<"$", "1", ",", ",", "5">>}

AmountInputs == SeqsUpTo(AmountAlphabet, MaxAmountLen) \cup LongAmounts \cup SampleAmounts

InitCommon ==
    /\ i = 0
    /\ transactions = <<>>
    /\ heap = <<>>
    /\ diagnostics = <<>>
    /\ result = None
    /\ assertFailed = FALSE
    /\ aggRuns = 0
    /\ serialized = 0
    /\ aggTotal = 0

\* main on an input file of at most MaxRows rows
Init ==
    /\ file \in SeqsUpTo(SampleRows, MaxRows)
    /\ pc = "parse"
    /\ InitCommon

\* main on a file of a header and one row, whose amount field varies
InitAmount ==
    /\ \E a \in AmountInputs :
          file = <<HeaderRow, <<<<"1", "5", "/", "0", "3", "/", "2", "4">>, <<"1", "4", ":", "3", "0">>, a, TxtFood, TxtLunch>>>>
    /\ pc = "parse"
    /\ InitCommon

\* a new Transactions object
InitLedger ==
    /\ file = <<>>
    /\ pc = "api"
    /\ InitCommon

Next == SkipHeader \/ ParseGoodRow \/ SkipBadRow \/ EndOfFile \/ WriteJson

NextLedger == AddWithNewCategory \/ AddWithSharedCategory \/ SetDefaults \/ ToJson

Spec == Init /\ [][Next]_vars

SpecAmount == InitAmount /\ [][Next]_vars

SpecLedger == InitLedger /\ [][NextLedger]_vars

(***************************************************************************)
(* Properties                                                              *)
(***************************************************************************)
\* the earliest of a non-empty set of datetimes
MinTime(S) == CHOOSE t \in S : \A u \in S : ~DtLess(u, t)

NameOf(k) == heap[transactions[k].category].name

\* the timestamps of the transactions whose category has the name of
\* transaction k's
TimesOfName(k) ==
    {transactions[j].created_at : j \in {m \in 1..Len(transactions) : NameOf(m) = NameOf(k)}}

\* two transactions with distinct Category objects of one name and different
\* timestamps
TwoInstancesOneName ==
    \E j, k \in 1..Len(transactions) :
        /\ transactions[j].category # transactions[k].category
        /\ NameOf(j) = NameOf(k)
        /\ transactions[j].created_at # transactions[k].created_at

\* C1: once set_default_category_created_ats has run on the ledger, the
\* Category of every transaction has created_at equal to the earliest
\* created_at of the transactions whose category bears the same name.
C1_EarliestPerName ==
    aggRuns > 0 =>
        \A k \in 1..Len(transactions) :
            heap[transactions[k].category].created_at = MinTime(TimesOfName(k))

C1_Witness == aggRuns > 0 /\ TwoInstancesOneName

\* what the ledger holds, Category objects replaced by their names
LedgerView ==
    [k \in 1..Len(transactions) |->
        [created_at |-> transactions[k].created_at, amount |-> transactions[k].amount,
         category |-> NameOf(k), notes |-> transactions[k].notes]]

RowParses(row) == ParseRow(row).ok

\* one transaction per row that parses, in row order
ExpectedView(rows) ==
    LET good == SelectSeq(rows, RowParses)
    IN  [k \in 1..Len(good) |->
            [created_at |-> ParseRow(good[k]).created_at, amount |-> ParseRow(good[k]).amount,
             category |-> ParseRow(good[k]).category, notes |-> ParseRow(good[k]).notes]]

\* C2: at every point of parse_expense_log the ledger holds exactly one
\* transaction per data row read so far that parses, in row order (a row
\* that fails adds nothing), and the function returns only when every row
\* has been read.
C2_OnePerValidRow ==
    /\ LedgerView = ExpectedView(SubSeq(file, 2, i))
    /\ pc \in {"serialize", "done"} => i = Len(file)

C2_Witness ==
    /\ pc = "done"
    /\ \E j, k \in 2..Len(file) : j < k /\ ~RowParses(file[j]) /\ RowParses(file[k])
    /\ Len(transactions) >= 1

\* the text of a UTC datetime in the output: ISO 8601 with a literal Z
ExpectedIsoZ(dt) ==
    Pad(dt[1], 4) \o <<"-">> \o Pad(dt[2], 2) \o <<"-">> \o Pad(dt[3], 2)
      \o <<"T">> \o Pad(dt[4], 2) \o <<":">> \o Pad(dt[5], 2) \o <<":", "0", "0", "Z">>

SharesName(k) == \E j \in 1..Len(transactions) : j # k /\ NameOf(j) = NameOf(k)

\* C3: in the document to_json returns, the transactions are in ledger order
\* and every transaction whose category name is shared with another has a
\* category object with that name and with created_at the earliest timestamp
\* of the transactions of that name.
C3_SerializedCategory ==
    result # None =>
        /\ Len(result.transactions) = Len(transactions)
        /\ \A k \in 1..Len(transactions) :
              /\ result.transactions[k].created_at = ExpectedIsoZ(transactions[k].created_at)
              /\ SharesName(k) =>
                    /\ result.transactions[k].category.name = NameOf(k)
                    /\ result.transactions[k].category.created_at
                          = ExpectedIsoZ(MinTime(TimesOfName(k)))

CreatedAts == [c \in 1..Len(heap) |-> heap[c].created_at]

\* C4: a run of set_default_category_created_ats that follows another with
\* no change of the ledger in between leaves every created_at as it was.
C4_Idempotent ==
    [][(aggRuns >= 1 /\ aggRuns' = aggRuns + 1) => CreatedAts' = CreatedAts]_vars

C4_Witness == aggRuns >= 2 /\ TwoInstancesOneName

\* C5: the first row never becomes a transaction, whatever it holds, and
\* every later row read is either a transaction or a reported bad row.
C5_HeaderSkipped ==
    /\ Len(transactions) = Cardinality({k \in 2..i : RowParses(file[k])})
    /\ \A k \in 1..Len(diagnostics) : diagnostics[k] >= 1
    /\ i >= 1 => Len(transactions) + Len(diagnostics) = i - 1

C5_Witness ==
    /\ pc = "done" /\ Len(file) >= 2
    /\ RowParses(file[1]) /\ RowParses(file[2])
    /\ Len(transactions) = Len(file) - 1

\* the amount field of the one data row of SpecAmount's file
AmountField == file[2][3]

NonEmptyDigits(s) == s # <<>> /\ AllDigits(s)

\* the form <sign><currency-symbol><digits>[,digits]*[.digits]
MatchesAmountForm(s) ==
    LET t == IF s # <<>> /\ s[1] = "-" THEN Tail(s) ELSE s
        body == Tail(t)
        dot == Find(body, ".")
        whole == IF dot = 0 THEN body ELSE SubSeq(body, 1, dot - 1)
        groups == Split(whole, ",")
    IN  /\ t # <<>> /\ t[1] = "$"
        /\ \A g \in 1..Len(groups) : NonEmptyDigits(groups[g])
        /\ dot # 0 => NonEmptyDigits(SubSeq(body, dot + 1, Len(body)))

\* the signed decimal value a field of that form encodes
EncodedValue(s) ==
    LET dot == Find(s, ".")
    IN  [kind |-> "fin", neg |-> s[1] = "-",
         digits |-> StripLeadingZeros(DigitSeq(SelectSeq(s, IsDigit))),
         exp |-> IF dot = 0 THEN 0 ELSE dot - Len(s)]

RECURSIVE StripTrailingZeros(_)
StripTrailingZeros(x) ==
    IF Len(x.digits) > 1 /\ x.digits[Len(x.digits)] = 0
    THEN StripTrailingZeros([x EXCEPT !.digits = SubSeq(x.digits, 1, Len(x.digits) - 1),
                                      !.exp = x.exp + 1])
    ELSE x

IsZero(x) == \A k \in 1..Len(x.digits) : x.digits[k] = 0

\* two finite Decimals are the same number
SameValue(x, y) ==
    /\ x.kind = "fin" /\ y.kind = "fin"
    /\ \/ IsZero(x) /\ IsZero(y)
       \/ StripTrailingZeros(x) = StripTrailingZeros(y)

\* C6: a row whose amount field has the form becomes a transaction whose
\* amount is exactly the signed decimal the field encodes.
C6_ExactAmount ==
    (i >= 2 /\ MatchesAmountForm(AmountField)) =>
        /\ Len(transactions) = 1
        /\ SameValue(transactions[1].amount, EncodedValue(AmountField))

\* C7: a row whose amount field does not have the form adds no transaction.
C7_MalformedAmountSkipped ==
    (i >= 2 /\ ~MatchesAmountForm(AmountField)) => transactions = <<>>

\* C8: the assertion of line 114 never fails, and whenever to_json returned
\* a document every category of the ledger has a created_at.
C8_AssertionNeverFails ==
    /\ ~assertFailed
    /\ result # None => AssertionHolds(transactions, heap)

C8_Witness ==
    /\ serialized = 2 /\ aggRuns = 1 /\ result # None
    /\ Len(transactions) >= 1

\* C9: in a run of the program every Category has no created_at and no call
\* of its setter until the aggregation in to_json, and when the output is
\* written its created_at is present and was set exactly once.
C9_SetExactlyOnce ==
    /\ pc \in {"parse", "serialize"} =>
          \A c \in 1..Len(heap) : heap[c].created_at = None /\ heap[c].sets = 0
    /\ pc = "done" =>
          \A c \in 1..Len(heap) : heap[c].created_at # None /\ heap[c].sets = 1

C9_Witness == pc = "done" /\ Len(heap) >= 2 /\ result # None

\* C10: in the document to_json returns, the description of every transaction
\* is its note text.
C10_DescriptionIsNotes ==
    result # None =>
        \A k \in 1..Len(transactions) :
            result.transactions[k].description = transactions[k].notes

====
